---- MODULE Spec2Model ----
(***************************************************************************)
(* A model of the warning manager of kz-io/warn (src/src/warning_manager.ts)*)
(* and of the warning class hierarchy it stores (src/src/exceptions/*.ts).  *)
(*                                                                         *)
(* Strings are modelled as tuples of one-character strings, so that        *)
(* String.prototype.includes is computed and not assumed.                  *)
(*                                                                         *)
(* WarningManager extends TBaseObservable of the package @kz/observe,      *)
(* whose source is not part of the repository: subscribe, unsubscribe,     *)
(* publish and the inherited complete are modelled from the specification  *)
(* and from the repository's tests of the manager.                         *)
(***************************************************************************)
EXTENDS Integers, Sequences, FiniteSets, TLC

VARIABLES
  warnings,   \* WarningManager.warnings: the stored Warning instances
  observers,  \* TBaseObservable: the subscribed observers
  completed,  \* TBaseObservable: the lifecycle flag of the specification
  received,   \* per observer, the values its next() was called with, in order
  ret,        \* the value returned by the last query, as held by its caller
  last,       \* the last operation called, with its arguments
  calls,      \* number of well-formed warn() calls the client has made
  fresh,      \* the client has called neither clear() nor complete() since
              \* construction
  inserted,   \* the records of the well-formed warn() calls since the last
              \* clear() or complete(), in call order
  detached,   \* the observers that were subscribed when complete() was called
              \* and have not called subscribe() since
  script,     \* how far the calls so far follow subscribe(A), warn(w1),
              \* complete(), warn(w2), and the records w1, w2 passed
  expected,   \* per observer, the records of the well-formed warn() calls made
              \* while it was subscribed, in call order
  behaviour,  \* per observer, what its next() does besides taking the value
  iterates,   \* what the loop of publish goes through: the observers still
              \* subscribed ("live") or those subscribed when it began
              \* ("snapshot")
  seen,       \* per observer whose next() reads the manager, the collection
              \* it read at each call of its next()
  threw       \* the last call ended by throwing

vars == <<warnings, observers, completed, received, ret, last, calls, fresh, inserted,
          detached, script, expected, behaviour, iterates, seen, threw>>

----------------------------------------------------------------------------
(* Bounds *)

\* well-formed warn() calls in one behaviour
MaxCalls == 2

----------------------------------------------------------------------------
(* The warning hierarchy *)

Kinds ==
  { "Warning", "OSWarning", "ProcessWarning", "ConnectionWarning",
    "DiskWarning", "MemoryWarning", "FutureWarning", "StabilityWarning",
    "DeprecationWarning", "PendingDeprecationWarning" }

NoParent == "Exception"

\* a hierarchy in which every class extends Warning directly
Parent_Flat(k) == IF k = "Warning" THEN NoParent ELSE "Warning"

\* the class each class extends
Parent(k) ==
  CASE k = "Warning" -> NoParent
    [] k = "OSWarning" -> "Warning"
    [] k = "FutureWarning" -> "Warning"
    [] k = "ProcessWarning" -> "OSWarning"
    [] k = "ConnectionWarning" -> "OSWarning"
    [] k = "DiskWarning" -> "OSWarning"
    [] k = "MemoryWarning" -> "OSWarning"
    [] k = "StabilityWarning" -> "FutureWarning"
    [] k = "DeprecationWarning" -> "FutureWarning"
    [] k = "PendingDeprecationWarning" -> "FutureWarning"

\* the `code` field each class declares
Code(k) ==
  CASE k = "Warning" -> 72
    [] k = "OSWarning" -> 73
    [] k = "MemoryWarning" -> 74
    [] k = "DiskWarning" -> 75
    [] k = "ProcessWarning" -> 76
    [] k = "ConnectionWarning" -> 77
    [] k = "FutureWarning" -> 88
    [] k = "StabilityWarning" -> 89
    [] k = "PendingDeprecationWarning" -> 90
    [] k = "DeprecationWarning" -> 91

\* a comparison of the constructor in place of instanceof
InstanceOf_Exact(k, type) == k = type

\* `w instanceof type`, for an instance w of class k: the walk up the
\* prototype chain
RECURSIVE InstanceOf(_, _)
InstanceOf(k, type) ==
  IF k = type THEN TRUE
  ELSE IF k = NoParent THEN FALSE
  ELSE InstanceOf(Parent(k), type)

StabilityDefaultMessage ==
  <<"A", " ", "f", "e", "a", "t", "u", "r", "e", " ", "i", "s", " ", "u", "n",
    "s", "t", "a", "b", "l", "e", " ", "a", "n", "d", " ", "s", "h", "o", "u",
    "l", "d", " ", "n", "o", "t", " ", "b", "e", " ", "u", "s", "e", "d", " ",
    "i", "n", " ", "p", "r", "o", "d", "u", "c", "t", "i", "o", "n", " ", "e",
    "n", "v", "i", "r", "o", "n", "m", "e", "n", "t", "s", ".">>

DeprecationDefaultMessage ==
  <<"A", " ", "f", "e", "a", "t", "u", "r", "e", " ", "h", "a", "s", " ", "b",
    "e", "e", "n", " ", "d", "e", "p", "r", "e", "c", "a", "t", "e", "d", ".">>

PendingDeprecationDefaultMessage ==
  <<"A", " ", "f", "e", "a", "t", "u", "r", "e", " ", "i", "s", " ", "p", "e",
    "n", "d", "i", "n", "g", " ", "d", "e", "p", "r", "e", "c", "a", "t", "i",
    "o", "n", ".">>

\* the classes whose constructor replaces a falsy message by DEFAULT_MESSAGE
Templated == {"StabilityWarning", "DeprecationWarning", "PendingDeprecationWarning"}

DEFAULT_MESSAGE(k) ==
  CASE k = "StabilityWarning" -> StabilityDefaultMessage
    [] k = "DeprecationWarning" -> DeprecationDefaultMessage
    [] k = "PendingDeprecationWarning" -> PendingDeprecationDefaultMessage

NoData == "undefined"

\* `new type(message)`: the instance a class builds from a message string.
\* The three templated classes run `message = message || DEFAULT_MESSAGE`
\* (the empty string is falsy); the others inherit the base constructor,
\* which keeps the message.
New(type, message) ==
  [ name    |-> type,
    message |-> IF type \in Templated /\ message = <<>>
                THEN DEFAULT_MESSAGE(type) ELSE message,
    code    |-> Code(type),
    data    |-> NoData ]

\* a structured payload passed to a constructor
SomeData == "data"

\* `new type(message, data)`: the constructors pass data on to the base class
NewWithData(type, message, data) ==
  [New(type, message) EXCEPT !.data = data]

----------------------------------------------------------------------------
(* Argument values *)

Undefined == "undefined"
Null == "null"

\* a string argument
Str(s) == [tag |-> "string", value |-> s]
\* a Warning instance argument
Obj(w) == [tag |-> "object", value |-> w]
\* a class (constructor) argument
Ctor(k) == [tag |-> "function", value |-> k]
\* an absent argument
Absent == [tag |-> "undefined", value |-> Undefined]

\* String.prototype.startsWith in place of includes
Includes_Prefix(m, s) ==
  Len(s) <= Len(m) /\ SubSeq(m, 1, Len(s)) = s

\* String.prototype.includes: s occurs in m as a contiguous run
Includes(m, s) ==
  \E i \in 0..(Len(m) - Len(s)) : SubSeq(m, i + 1, i + Len(s)) = s

----------------------------------------------------------------------------
(* The templated classes: StabilityWarning, DeprecationWarning and          *)
(* PendingDeprecationWarning build their message from a data object         *)

\* the fields of a data object the message templates read, and one they do
\* not
TemplateFields ==
  {"aboutUrl", "alternativeFeatureName", "featureName", "featureType"}

DataFields == TemplateFields \cup {"foo"}

\* `!!data.f`: the field is there and is not the empty string
Has(data, f) == f \in DOMAIN data /\ data[f] # <<>>

\* A string of the model is a tuple of code units below 256. Among these,
\* toLowerCase changes the letters A to Z and the letters of U+00C0 to
\* U+00DE but the multiplication sign U+00D7, each to the code unit 32
\* above it.
UpperCase ==
  <<"A", "B", "C", "D", "E", "F", "G", "H", "I", "J", "K", "L", "M", "N",
    "O", "P", "Q", "R", "S", "T", "U", "V", "W", "X", "Y", "Z", "À", "Á",
    "Â", "Ã", "Ä", "Å", "Æ", "Ç", "È", "É", "Ê", "Ë", "Ì", "Í", "Î", "Ï",
    "Ð", "Ñ", "Ò", "Ó", "Ô", "Õ", "Ö", "Ø", "Ù", "Ú", "Û", "Ü", "Ý", "Þ">>

LowerCase ==
  <<"a", "b", "c", "d", "e", "f", "g", "h", "i", "j", "k", "l", "m", "n",
    "o", "p", "q", "r", "s", "t", "u", "v", "w", "x", "y", "z", "à", "á",
    "â", "ã", "ä", "å", "æ", "ç", "è", "é", "ê", "ë", "ì", "í", "î", "ï",
    "ð", "ñ", "ò", "ó", "ô", "õ", "ö", "ø", "ù", "ú", "û", "ü", "ý", "þ">>

\* String.prototype.toLowerCase on one character
ToLowerCase(c) ==
  IF \E i \in 1..Len(UpperCase) : UpperCase[i] = c
  THEN LowerCase[CHOOSE i \in 1..Len(UpperCase) : UpperCase[i] = c]
  ELSE c

Vowels == <<"a", "e", "i", "o", "u">>

\* `featureType?.charAt(0).toLowerCase() || ''`
FirstLetter(data) ==
  IF Has(data, "featureType") THEN <<ToLowerCase(data.featureType[1])>>
  ELSE <<>>

\* `vowels.includes(first) ? 'An' : 'A'`
Article(data) ==
  IF Includes(Vowels, FirstLetter(data)) THEN <<"A", "n">> ELSE <<"A">>

\* createMessageFromData of StabilityWarning
StabilityMessageFromData(data) ==
  LET aboutUrl == Has(data, "aboutUrl")
      featureName == Has(data, "featureName")
      featureType == Has(data, "featureType")
      A == Article(data)
      DEFAULT == StabilityDefaultMessage
  IN IF aboutUrl /\ featureName /\ featureType THEN
          A \o <<" ">> \o data.featureType \o <<",", " ">> \o
          data.featureName \o <<",", " ", "i", "s", " ", "u", "n", "s", "t",
          "a", "b", "l", "e", " ", "a", "n", "d", " ", "s", "h", "o", "u",
          "l", "d", " ", "n", "o", "t", " ", "b", "e", " ", "u", "s", "e",
          "d", " ", "i", "n", " ", "p", "r", "o", "d", "u", "c", "t", "i",
          "o", "n", " ", "e", "n", "v", "i", "r", "o", "n", "m", "e", "n",
          "t", "s", ".", " ", "R", "e", "a", "d", " ", "m", "o", "r", "e",
          " ", "a", "t", " ">> \o data.aboutUrl \o <<".">>
     ELSE IF aboutUrl /\ featureName THEN
          <<"A", " ", "f", "e", "a", "t", "u", "r", "e", ",", " ">> \o
          data.featureName \o <<",", " ", "i", "s", " ", "u", "n", "s", "t",
          "a", "b", "l", "e", " ", "a", "n", "d", " ", "s", "h", "o", "u",
          "l", "d", " ", "n", "o", "t", " ", "b", "e", " ", "u", "s", "e",
          "d", " ", "i", "n", " ", "p", "r", "o", "d", "u", "c", "t", "i",
          "o", "n", " ", "e", "n", "v", "i", "r", "o", "n", "m", "e", "n",
          "t", "s", ".", " ", "R", "e", "a", "d", " ", "m", "o", "r", "e",
          " ", "a", "t", " ">> \o data.aboutUrl \o <<".">>
     ELSE IF aboutUrl /\ featureType THEN
          A \o <<" ">> \o data.featureType \o <<" ", "i", "s", " ", "u",
          "n", "s", "t", "a", "b", "l", "e", " ", "a", "n", "d", " ", "s",
          "h", "o", "u", "l", "d", " ", "n", "o", "t", " ", "b", "e", " ",
          "u", "s", "e", "d", " ", "i", "n", " ", "p", "r", "o", "d", "u",
          "c", "t", "i", "o", "n", " ", "e", "n", "v", "i", "r", "o", "n",
          "m", "e", "n", "t", "s", ".", " ", "R", "e", "a", "d", " ", "m",
          "o", "r", "e", " ", "a", "t", " ">> \o data.aboutUrl \o <<".">>
     ELSE IF featureName /\ featureType THEN
          A \o <<" ">> \o data.featureType \o <<",", " ">> \o
          data.featureName \o <<",", " ", "i", "s", " ", "u", "n", "s", "t",
          "a", "b", "l", "e", " ", "a", "n", "d", " ", "s", "h", "o", "u",
          "l", "d", " ", "n", "o", "t", " ", "b", "e", " ", "u", "s", "e",
          "d", " ", "i", "n", " ", "p", "r", "o", "d", "u", "c", "t", "i",
          "o", "n", " ", "e", "n", "v", "i", "r", "o", "n", "m", "e", "n",
          "t", "s", ".">>
     ELSE IF featureName THEN
          <<"A", " ", "f", "e", "a", "t", "u", "r", "e", ",", " ">> \o
          data.featureName \o <<",", " ", "i", "s", " ", "u", "n", "s", "t",
          "a", "b", "l", "e", " ", "a", "n", "d", " ", "s", "h", "o", "u",
          "l", "d", " ", "n", "o", "t", " ", "b", "e", " ", "u", "s", "e",
          "d", " ", "i", "n", " ", "p", "r", "o", "d", "u", "c", "t", "i",
          "o", "n", " ", "e", "n", "v", "i", "r", "o", "n", "m", "e", "n",
          "t", "s", ".">>
     ELSE IF featureType THEN
          A \o <<" ">> \o data.featureType \o <<" ", "i", "s", " ", "u",
          "n", "s", "t", "a", "b", "l", "e", " ", "a", "n", "d", " ", "s",
          "h", "o", "u", "l", "d", " ", "n", "o", "t", " ", "b", "e", " ",
          "u", "s", "e", "d", " ", "i", "n", " ", "p", "r", "o", "d", "u",
          "c", "t", "i", "o", "n", " ", "e", "n", "v", "i", "r", "o", "n",
          "m", "e", "n", "t", "s", ".">>
     ELSE IF aboutUrl THEN
          DEFAULT \o <<" ", "R", "e", "a", "d", " ", "m", "o", "r", "e",
          " ", "a", "t", " ">> \o data.aboutUrl \o <<".">>
     ELSE DEFAULT

\* a createMessageFromData that tries the case without the alternative first
DeprecationMessageFromData_Reordered(data) ==
  LET aboutUrl == Has(data, "aboutUrl")
      alternativeFeatureName == Has(data, "alternativeFeatureName")
      featureName == Has(data, "featureName")
      featureType == Has(data, "featureType")
      A == Article(data)
      DEFAULT == DeprecationDefaultMessage
  IN IF aboutUrl /\ featureName /\ featureType THEN
          A \o <<" ">> \o data.featureType \o <<",", " ">> \o
          data.featureName \o <<",", " ", "h", "a", "s", " ", "b", "e", "e",
          "n", " ", "d", "e", "p", "r", "e", "c", "a", "t", "e", "d", ".",
          " ", "R", "e", "a", "d", " ", "m", "o", "r", "e", " ", "a", "t",
          " ">> \o data.aboutUrl \o <<".">>
     ELSE IF aboutUrl /\ alternativeFeatureName /\ featureName /\ featureType THEN
          A \o <<" ">> \o data.featureType \o <<",", " ">> \o
          data.featureName \o <<",", " ", "h", "a", "s", " ", "b", "e", "e",
          "n", " ", "d", "e", "p", "r", "e", "c", "a", "t", "e", "d", ".",
          " ", "U", "s", "e", " ">> \o data.alternativeFeatureName \o <<" ",
          "i", "n", "s", "t", "e", "a", "d", ".", " ", "R", "e", "a", "d",
          " ", "m", "o", "r", "e", " ", "a", "t", " ">> \o data.aboutUrl \o
          <<".">>
     ELSE IF aboutUrl /\ alternativeFeatureName /\ featureName THEN
          <<"A", " ", "f", "e", "a", "t", "u", "r", "e", ",", " ">> \o
          data.featureName \o <<",", " ", "h", "a", "s", " ", "b", "e", "e",
          "n", " ", "d", "e", "p", "r", "e", "c", "a", "t", "e", "d", ".",
          " ", "U", "s", "e", " ">> \o data.alternativeFeatureName \o <<" ",
          "i", "n", "s", "t", "e", "a", "d", ".", " ", "R", "e", "a", "d",
          " ", "m", "o", "r", "e", " ", "a", "t", " ">> \o data.aboutUrl \o
          <<".">>
     ELSE IF aboutUrl /\ alternativeFeatureName /\ featureType THEN
          A \o <<" ">> \o data.featureType \o <<" ", "h", "a", "s", " ",
          "b", "e", "e", "n", " ", "d", "e", "p", "r", "e", "c", "a", "t",
          "e", "d", ".", " ", "U", "s", "e", " ">> \o
          data.alternativeFeatureName \o <<" ", "i", "n", "s", "t", "e",
          "a", "d", ".", " ", "R", "e", "a", "d", " ", "m", "o", "r", "e",
          " ", "a", "t", " ">> \o data.aboutUrl \o <<".">>
     ELSE IF alternativeFeatureName /\ featureName /\ featureType THEN
          A \o <<" ">> \o data.featureType \o <<",", " ">> \o
          data.featureName \o <<",", " ", "h", "a", "s", " ", "b", "e", "e",
          "n", " ", "d", "e", "p", "r", "e", "c", "a", "t", "e", "d", ".",
          " ", "U", "s", "e", " ">> \o data.alternativeFeatureName \o <<" ",
          "i", "n", "s", "t", "e", "a", "d", ".">>
     ELSE IF aboutUrl /\ featureName THEN
          <<"A", " ", "f", "e", "a", "t", "u", "r", "e", ",", " ">> \o
          data.featureName \o <<",", " ", "h", "a", "s", " ", "b", "e", "e",
          "n", " ", "d", "e", "p", "r", "e", "c", "a", "t", "e", "d", ".",
          " ", "R", "e", "a", "d", " ", "m", "o", "r", "e", " ", "a", "t",
          " ">> \o data.aboutUrl \o <<".">>
     ELSE IF aboutUrl /\ alternativeFeatureName THEN
          <<"A", " ", "f", "e", "a", "t", "u", "r", "e", " ", "h", "a", "s",
          " ", "b", "e", "e", "n", " ", "d", "e", "p", "r", "e", "c", "a",
          "t", "e", "d", ".", " ", "U", "s", "e", " ">> \o
          data.alternativeFeatureName \o <<" ", "i", "n", "s", "t", "e",
          "a", "d", ".", " ", "R", "e", "a", "d", " ", "m", "o", "r", "e",
          " ", "a", "t", " ">> \o data.aboutUrl \o <<".">>
     ELSE IF aboutUrl /\ featureType THEN
          A \o <<" ">> \o data.featureType \o <<" ", "h", "a", "s", " ",
          "b", "e", "e", "n", " ", "d", "e", "p", "r", "e", "c", "a", "t",
          "e", "d", ".", " ", "R", "e", "a", "d", " ", "m", "o", "r", "e",
          " ", "a", "t", " ">> \o data.aboutUrl \o <<".">>
     ELSE IF alternativeFeatureName /\ featureName THEN
          <<"A", " ", "f", "e", "a", "t", "u", "r", "e", ",", " ">> \o
          data.featureName \o <<",", " ", "h", "a", "s", " ", "b", "e", "e",
          "n", " ", "d", "e", "p", "r", "e", "c", "a", "t", "e", "d", ".",
          " ", "U", "s", "e", " ">> \o data.alternativeFeatureName \o <<" ",
          "i", "n", "s", "t", "e", "a", "d", ".">>
     ELSE IF alternativeFeatureName /\ featureType THEN
          A \o <<" ">> \o data.featureType \o <<" ", "h", "a", "s", " ",
          "b", "e", "e", "n", " ", "d", "e", "p", "r", "e", "c", "a", "t",
          "e", "d", ".", " ", "U", "s", "e", " ">> \o
          data.alternativeFeatureName \o <<" ", "i", "n", "s", "t", "e",
          "a", "d", ".">>
     ELSE IF featureName /\ featureType THEN
          A \o <<" ">> \o data.featureType \o <<",", " ">> \o
          data.featureName \o <<",", " ", "h", "a", "s", " ", "b", "e", "e",
          "n", " ", "d", "e", "p", "r", "e", "c", "a", "t", "e", "d", ".">>
     ELSE IF featureName THEN
          <<"A", " ", "f", "e", "a", "t", "u", "r", "e", ",", " ">> \o
          data.featureName \o <<",", " ", "h", "a", "s", " ", "b", "e", "e",
          "n", " ", "d", "e", "p", "r", "e", "c", "a", "t", "e", "d", ".">>
     ELSE IF featureType THEN
          A \o <<" ">> \o data.featureType \o <<" ", "h", "a", "s", " ",
          "b", "e", "e", "n", " ", "d", "e", "p", "r", "e", "c", "a", "t",
          "e", "d", ".">>
     ELSE IF aboutUrl THEN
          DEFAULT \o <<" ", "R", "e", "a", "d", " ", "m", "o", "r", "e",
          " ", "a", "t", " ">> \o data.aboutUrl \o <<".">>
     ELSE IF alternativeFeatureName THEN
          <<"A", " ", "f", "e", "a", "t", "u", "r", "e", " ", "h", "a", "s",
          " ", "b", "e", "e", "n", " ", "d", "e", "p", "r", "e", "c", "a",
          "t", "e", "d", ".", " ", "U", "s", "e", " ">> \o
          data.alternativeFeatureName \o <<" ", "i", "n", "s", "t", "e",
          "a", "d", ".">>
     ELSE DEFAULT

\* createMessageFromData of DeprecationWarning
DeprecationMessageFromData(data) ==
  LET aboutUrl == Has(data, "aboutUrl")
      alternativeFeatureName == Has(data, "alternativeFeatureName")
      featureName == Has(data, "featureName")
      featureType == Has(data, "featureType")
      A == Article(data)
      DEFAULT == DeprecationDefaultMessage
  IN IF aboutUrl /\ alternativeFeatureName /\ featureName /\ featureType THEN
          A \o <<" ">> \o data.featureType \o <<",", " ">> \o
          data.featureName \o <<",", " ", "h", "a", "s", " ", "b", "e", "e",
          "n", " ", "d", "e", "p", "r", "e", "c", "a", "t", "e", "d", ".",
          " ", "U", "s", "e", " ">> \o data.alternativeFeatureName \o <<" ",
          "i", "n", "s", "t", "e", "a", "d", ".", " ", "R", "e", "a", "d",
          " ", "m", "o", "r", "e", " ", "a", "t", " ">> \o data.aboutUrl \o
          <<".">>
     ELSE IF aboutUrl /\ featureName /\ featureType THEN
          A \o <<" ">> \o data.featureType \o <<",", " ">> \o
          data.featureName \o <<",", " ", "h", "a", "s", " ", "b", "e", "e",
          "n", " ", "d", "e", "p", "r", "e", "c", "a", "t", "e", "d", ".",
          " ", "R", "e", "a", "d", " ", "m", "o", "r", "e", " ", "a", "t",
          " ">> \o data.aboutUrl \o <<".">>
     ELSE IF aboutUrl /\ alternativeFeatureName /\ featureName THEN
          <<"A", " ", "f", "e", "a", "t", "u", "r", "e", ",", " ">> \o
          data.featureName \o <<",", " ", "h", "a", "s", " ", "b", "e", "e",
          "n", " ", "d", "e", "p", "r", "e", "c", "a", "t", "e", "d", ".",
          " ", "U", "s", "e", " ">> \o data.alternativeFeatureName \o <<" ",
          "i", "n", "s", "t", "e", "a", "d", ".", " ", "R", "e", "a", "d",
          " ", "m", "o", "r", "e", " ", "a", "t", " ">> \o data.aboutUrl \o
          <<".">>
     ELSE IF aboutUrl /\ alternativeFeatureName /\ featureType THEN
          A \o <<" ">> \o data.featureType \o <<" ", "h", "a", "s", " ",
          "b", "e", "e", "n", " ", "d", "e", "p", "r", "e", "c", "a", "t",
          "e", "d", ".", " ", "U", "s", "e", " ">> \o
          data.alternativeFeatureName \o <<" ", "i", "n", "s", "t", "e",
          "a", "d", ".", " ", "R", "e", "a", "d", " ", "m", "o", "r", "e",
          " ", "a", "t", " ">> \o data.aboutUrl \o <<".">>
     ELSE IF alternativeFeatureName /\ featureName /\ featureType THEN
          A \o <<" ">> \o data.featureType \o <<",", " ">> \o
          data.featureName \o <<",", " ", "h", "a", "s", " ", "b", "e", "e",
          "n", " ", "d", "e", "p", "r", "e", "c", "a", "t", "e", "d", ".",
          " ", "U", "s", "e", " ">> \o data.alternativeFeatureName \o <<" ",
          "i", "n", "s", "t", "e", "a", "d", ".">>
     ELSE IF aboutUrl /\ featureName THEN
          <<"A", " ", "f", "e", "a", "t", "u", "r", "e", ",", " ">> \o
          data.featureName \o <<",", " ", "h", "a", "s", " ", "b", "e", "e",
          "n", " ", "d", "e", "p", "r", "e", "c", "a", "t", "e", "d", ".",
          " ", "R", "e", "a", "d", " ", "m", "o", "r", "e", " ", "a", "t",
          " ">> \o data.aboutUrl \o <<".">>
     ELSE IF aboutUrl /\ alternativeFeatureName THEN
          <<"A", " ", "f", "e", "a", "t", "u", "r", "e", " ", "h", "a", "s",
          " ", "b", "e", "e", "n", " ", "d", "e", "p", "r", "e", "c", "a",
          "t", "e", "d", ".", " ", "U", "s", "e", " ">> \o
          data.alternativeFeatureName \o <<" ", "i", "n", "s", "t", "e",
          "a", "d", ".", " ", "R", "e", "a", "d", " ", "m", "o", "r", "e",
          " ", "a", "t", " ">> \o data.aboutUrl \o <<".">>
     ELSE IF aboutUrl /\ featureType THEN
          A \o <<" ">> \o data.featureType \o <<" ", "h", "a", "s", " ",
          "b", "e", "e", "n", " ", "d", "e", "p", "r", "e", "c", "a", "t",
          "e", "d", ".", " ", "R", "e", "a", "d", " ", "m", "o", "r", "e",
          " ", "a", "t", " ">> \o data.aboutUrl \o <<".">>
     ELSE IF alternativeFeatureName /\ featureName THEN
          <<"A", " ", "f", "e", "a", "t", "u", "r", "e", ",", " ">> \o
          data.featureName \o <<",", " ", "h", "a", "s", " ", "b", "e", "e",
          "n", " ", "d", "e", "p", "r", "e", "c", "a", "t", "e", "d", ".",
          " ", "U", "s", "e", " ">> \o data.alternativeFeatureName \o <<" ",
          "i", "n", "s", "t", "e", "a", "d", ".">>
     ELSE IF alternativeFeatureName /\ featureType THEN
          A \o <<" ">> \o data.featureType \o <<" ", "h", "a", "s", " ",
          "b", "e", "e", "n", " ", "d", "e", "p", "r", "e", "c", "a", "t",
          "e", "d", ".", " ", "U", "s", "e", " ">> \o
          data.alternativeFeatureName \o <<" ", "i", "n", "s", "t", "e",
          "a", "d", ".">>
     ELSE IF featureName /\ featureType THEN
          A \o <<" ">> \o data.featureType \o <<",", " ">> \o
          data.featureName \o <<",", " ", "h", "a", "s", " ", "b", "e", "e",
          "n", " ", "d", "e", "p", "r", "e", "c", "a", "t", "e", "d", ".">>
     ELSE IF featureName THEN
          <<"A", " ", "f", "e", "a", "t", "u", "r", "e", ",", " ">> \o
          data.featureName \o <<",", " ", "h", "a", "s", " ", "b", "e", "e",
          "n", " ", "d", "e", "p", "r", "e", "c", "a", "t", "e", "d", ".">>
     ELSE IF featureType THEN
          A \o <<" ">> \o data.featureType \o <<" ", "h", "a", "s", " ",
          "b", "e", "e", "n", " ", "d", "e", "p", "r", "e", "c", "a", "t",
          "e", "d", ".">>
     ELSE IF aboutUrl THEN
          DEFAULT \o <<" ", "R", "e", "a", "d", " ", "m", "o", "r", "e",
          " ", "a", "t", " ">> \o data.aboutUrl \o <<".">>
     ELSE IF alternativeFeatureName THEN
          <<"A", " ", "f", "e", "a", "t", "u", "r", "e", " ", "h", "a", "s",
          " ", "b", "e", "e", "n", " ", "d", "e", "p", "r", "e", "c", "a",
          "t", "e", "d", ".", " ", "U", "s", "e", " ">> \o
          data.alternativeFeatureName \o <<" ", "i", "n", "s", "t", "e",
          "a", "d", ".">>
     ELSE DEFAULT

\* createMessageFromData of PendingDeprecationWarning
PendingDeprecationMessageFromData(data) ==
  LET aboutUrl == Has(data, "aboutUrl")
      featureName == Has(data, "featureName")
      featureType == Has(data, "featureType")
      A == Article(data)
      DEFAULT == PendingDeprecationDefaultMessage
  IN IF aboutUrl /\ featureName /\ featureType THEN
          A \o <<" ">> \o data.featureType \o <<",", " ">> \o
          data.featureName \o <<",", " ", "i", "s", " ", "p", "e", "n", "d",
          "i", "n", "g", " ", "d", "e", "p", "r", "e", "c", "a", "t", "i",
          "o", "n", ".", " ", "R", "e", "a", "d", " ", "m", "o", "r", "e",
          " ", "a", "t", " ">> \o data.aboutUrl \o <<".">>
     ELSE IF aboutUrl /\ featureName THEN
          <<"A", " ", "f", "e", "a", "t", "u", "r", "e", ",", " ">> \o
          data.featureName \o <<",", " ", "i", "s", " ", "p", "e", "n", "d",
          "i", "n", "g", " ", "d", "e", "p", "r", "e", "c", "a", "t", "i",
          "o", "n", ".", " ", "R", "e", "a", "d", " ", "m", "o", "r", "e",
          " ", "a", "t", " ">> \o data.aboutUrl \o <<".">>
     ELSE IF aboutUrl /\ featureType THEN
          A \o <<" ">> \o data.featureType \o <<" ", "i", "s", " ", "p",
          "e", "n", "d", "i", "n", "g", " ", "d", "e", "p", "r", "e", "c",
          "a", "t", "i", "o", "n", ".", " ", "R", "e", "a", "d", " ", "m",
          "o", "r", "e", " ", "a", "t", " ">> \o data.aboutUrl \o <<".">>
     ELSE IF featureName /\ featureType THEN
          A \o <<" ">> \o data.featureType \o <<",", " ">> \o
          data.featureName \o <<",", " ", "i", "s", " ", "p", "e", "n", "d",
          "i", "n", "g", " ", "d", "e", "p", "r", "e", "c", "a", "t", "i",
          "o", "n", ".">>
     ELSE IF featureName THEN
          <<"A", " ", "f", "e", "a", "t", "u", "r", "e", ",", " ">> \o
          data.featureName \o <<",", " ", "i", "s", " ", "p", "e", "n", "d",
          "i", "n", "g", " ", "d", "e", "p", "r", "e", "c", "a", "t", "i",
          "o", "n", ".">>
     ELSE IF featureType THEN
          A \o <<" ">> \o data.featureType \o <<" ", "i", "s", " ", "p",
          "e", "n", "d", "i", "n", "g", " ", "d", "e", "p", "r", "e", "c",
          "a", "t", "i", "o", "n", ".">>
     ELSE IF aboutUrl THEN
          DEFAULT \o <<" ", "R", "e", "a", "d", " ", "m", "o", "r", "e",
          " ", "a", "t", " ">> \o data.aboutUrl \o <<".">>
     ELSE DEFAULT

MessageFromData(type, data) ==
  CASE type = "StabilityWarning" -> StabilityMessageFromData(data)
    [] type = "DeprecationWarning" -> DeprecationMessageFromData(data)
    [] type = "PendingDeprecationWarning" ->
         PendingDeprecationMessageFromData(data)

\* `{}`, the default of the data parameter
EmptyObject == [f \in {} |-> <<>>]

\* a data argument
Data(d) == [tag |-> "object", value |-> d]

\* the data an instance shows: an object without fields shows as undefined
DataOf(d) == IF DOMAIN d = {} THEN NoData ELSE d

\* a constructor that takes the message from the data whenever data is given
NewFrom_DataFirst(type, messageOrData, data) ==
  LET given == IF data.tag = "undefined" THEN EmptyObject ELSE data.value
      d == IF messageOrData.tag = "object" THEN messageOrData.value ELSE given
      message == IF messageOrData.tag = "string" /\ DOMAIN d = {}
                 THEN messageOrData.value
                 ELSE MessageFromData(type, d)
  IN NewWithData(type, message, DataOf(d))

\* `new type(messageOrData, data)` of a templated class: the parameters
\* default to DEFAULT_MESSAGE and {}; a string is the message, anything else
\* is the data and the message is built from it; New replaces a falsy
\* message by DEFAULT_MESSAGE
NewFrom(type, messageOrData, data) ==
  LET arg == IF messageOrData.tag = "undefined"
             THEN Str(DEFAULT_MESSAGE(type)) ELSE messageOrData
      given == IF data.tag = "undefined" THEN EmptyObject ELSE data.value
      isString == arg.tag = "string"
      d == IF isString THEN given ELSE arg.value
      message == IF isString THEN arg.value ELSE MessageFromData(type, d)
  IN NewWithData(type, message, DataOf(d))

----------------------------------------------------------------------------
(* TBaseObservable<Warning>: the observer side of the manager *)

Observers == {"A", "B"}

\* the order in which publish goes through the subscribed observers
NotificationOrder == <<"A", "B">>

\* what an observer's next() may do: take the value, throw, read the
\* manager's collection, or call warn() on the manager
Behaviours == {"plain", "throws", "reads", "warns"}

\* what else it may do: call clear() or complete() on the manager, or the
\* unsubscribe() of the other observers' subscriptions
Callbacks == Behaviours \cup {"clears", "completes", "unsubscribes"}

\* how publish treats an observer that is detached while the loop runs
Iterations == {"live", "snapshot"}

\* the message a "warns" observer passes to warn(); it does so for every
\* record but those built from this message
InnerMessage == <<"i">>

\* the array a caller holds, as it reads after warnings.push() left the
\* stored array with the elements ws: push changes the stored array in place
AfterPush(r, ws) ==
  IF r.op = "getWarnings" /\ r.shared THEN [r EXCEPT !.value = ws] ELSE r

\* the array a caller holds after `this.warnings = []`: the manager stores a
\* new array, the one held keeps its elements
AfterRebind(r) ==
  IF r.op = "getWarnings" THEN [r EXCEPT !.shared = FALSE] ELSE r

\* A call runs on the manager's fields and on what the observers have been
\* given so far: m.warnings is this.warnings, m.observers and m.completed
\* the state of the observable, m.received and m.seen the observers' logs,
\* m.ret the array the caller holds from its last query, m.detached the
\* observers that complete() detached, m.threw whether an exception is on
\* its way to the caller.
Run ==
  [ warnings |-> warnings, observers |-> observers, completed |-> completed,
    received |-> received, seen |-> seen, ret |-> ret,
    detached |-> detached, threw |-> FALSE ]

\* clear() called while a call runs: `this.warnings = []`
cleared(m) == [m EXCEPT !.warnings = <<>>, !.ret = AfterRebind(@)]

\* TBaseObservable.complete() called while a call runs: the observers
\* subscribed at that moment are detached
superCompleted(m) ==
  [m EXCEPT !.observers = {}, !.completed = TRUE,
            !.detached = @ \cup m.observers]

\* complete() called while a call runs: super.complete(), then clear()
completedBy(m) == cleared(superCompleted(m))

\* the unsubscribe() of o's subscription called while a call runs
unsubscribed(m, o) == [m EXCEPT !.observers = @ \ {o}]

RECURSIVE unsubscribedAll(_, _)
\* the unsubscribe() of each subscription of os
unsubscribedAll(m, os) ==
  IF os = {} THEN m
  ELSE LET o == CHOOSE x \in os : TRUE
       IN unsubscribedAll(unsubscribed(m, o), os \ {o})

RECURSIVE next(_, _, _)
RECURSIVE publishFrom(_, _, _, _)
RECURSIVE add(_, _)
RECURSIVE warn(_, _, _)

\* observer o's next(value)
next(m, o, value) ==
  LET taken == [m EXCEPT !.received[o] = Append(@, value),
                         !.seen[o] = IF behaviour[o] = "reads"
                                     THEN Append(@, m.warnings) ELSE @]
  IN CASE behaviour[o] = "throws" -> [taken EXCEPT !.threw = TRUE]
       [] behaviour[o] = "warns" /\ value.message # InnerMessage ->
            warn(taken, Str(InnerMessage), Undefined)
       [] behaviour[o] = "clears" -> cleared(taken)
       [] behaviour[o] = "completes" -> completedBy(taken)
       [] behaviour[o] = "unsubscribes" ->
            unsubscribedAll(taken, Observers \ {o})
       [] OTHER -> taken

\* the loop of publish, from position i on, over the observers `to` that
\* were subscribed when publish was called; an exception thrown by a next()
\* ends it.  Whether an observer detached by a next() of this loop is still
\* called is the library's choice (iterates).
publishFrom(m, value, to, i) ==
  IF i > Len(NotificationOrder) \/ m.threw THEN m
  ELSE LET o == NotificationOrder[i]
           called == IF iterates = "live" THEN o \in to /\ o \in m.observers
                     ELSE o \in to
       IN publishFrom(IF called THEN next(m, o, value) ELSE m,
                      value, to, i + 1)

\* publish(value): next(value) is called on each subscribed observer
publish(m, value) == publishFrom(m, value, m.observers, 1)

\* subscribe(observer).  On a completed manager the specification says both
\* that the call registers the observer as usual and that it is inert: the
\* model allows either outcome.
subscribe(o) ==
  \/ observers' = observers \cup {o}
  \/ completed /\ observers' = observers

\* the subscription's unsubscribe()
unsubscribe(o) ==
  observers' = observers \ {o}

\* a complete that flips the lifecycle flag
superComplete_Toggle ==
  /\ observers' = {}
  /\ completed' = ~completed

\* TBaseObservable.complete(): detaches every observer
superComplete ==
  /\ observers' = {}
  /\ completed' = TRUE

----------------------------------------------------------------------------
(* WarningManager *)

\* get length()
length == Len(warnings)

\* warnings.push(warning): the stored array changes in place, and so does
\* what a caller holding that array reads
push(m, warning) ==
  [m EXCEPT !.warnings = Append(@, warning),
            !.ret = AfterPush(@, Append(m.warnings, warning))]

\* an add that skips a warning equal to a stored one
add_Dedup(m, warning) ==
  publish(IF \E i \in 1..Len(m.warnings) : m.warnings[i] = warning
          THEN m ELSE push(m, warning), warning)

\* an add that does not publish
add_NoPublish(m, warning) == push(m, warning)

\* an add that publishes twice
add_PublishTwice(m, warning) ==
  publish(publish(push(m, warning), warning), warning)

\* an add that publishes the last stored record before it pushes
add_PublishPrevious(m, warning) ==
  IF m.warnings = <<>> THEN push(m, warning)
  ELSE publish(push(m, warning), m.warnings[Len(m.warnings)])

\* an add that pushes only when an observer is subscribed
add_OnlyWhenObserved(m, warning) ==
  publish(IF observers = {} THEN m ELSE push(m, warning), warning)

\* an add that notifies every observer, subscribed or not
add_NotifyAll(m, warning) ==
  [push(m, warning) EXCEPT
     !.received = [o \in Observers |-> Append(m.received[o], warning)]]

\* an add that catches what publish throws
add_Swallows(m, warning) ==
  [publish(push(m, warning), warning) EXCEPT !.threw = FALSE]

\* an add that publishes, then pushes
add_PushLast(m, warning) == push(publish(m, warning), warning)

\* an add that stores, after publish, the array it computed before it
add_WritesBack(m, warning) ==
  [publish(push(m, warning), warning) EXCEPT
     !.warnings = Append(m.warnings, warning)]

\* an add that marks the record stored last as followed by another
add_LinksPrevious(m, warning) ==
  LET ws == m.warnings
      marked == IF ws = <<>> THEN ws
                ELSE [ws EXCEPT ![Len(ws)].data = "linked"]
  IN publish([m EXCEPT !.warnings = Append(marked, warning)], warning)

\* an add that puts the warning at the front
add_Unshift(m, warning) ==
  publish([m EXCEPT !.warnings = <<warning>> \o @], warning)

\* add(warning): push, then publish
add(m, warning) == publish(push(m, warning), warning)

\* the default value of warn's second parameter: `type = Warning`
TypeOrDefault(type) == IF type = Undefined THEN "Warning" ELSE type

\* `if (type)`: a class is truthy, null is not
Truthy(type) == type # Null /\ type # Undefined

\* a warn that builds the base class whatever class is passed
warn_IgnoresType(m, warning, type) ==
  IF warning.tag = "string"
  THEN IF Truthy(TypeOrDefault(type))
       THEN add(m, New("Warning", warning.value))
       ELSE m
  ELSE add(m, warning.value)

\* a warn that builds a new record from the name and message of the one passed
warn_Rebuilds(m, warning, type) ==
  IF warning.tag = "string"
  THEN IF Truthy(TypeOrDefault(type))
       THEN add(m, New(TypeOrDefault(type), warning.value))
       ELSE m
  ELSE add(m, New(warning.value.name, warning.value.message))

\* a warn that falls back to the base class when the class is falsy
warn_FalsyDefaults(m, warning, type) ==
  IF warning.tag = "string"
  THEN add(m, New(IF Truthy(type) THEN type ELSE "Warning", warning.value))
  ELSE add(m, warning.value)

\* warn(warning, type)
warn(m, warning, type) ==
  IF warning.tag = "string"
  THEN IF Truthy(TypeOrDefault(type))
       THEN add(m, New(TypeOrDefault(type), warning.value))
       ELSE m
  ELSE add(m, warning.value)

\* a copy in reverse order
Spread_Reversed(ws) == [i \in 1..Len(ws) |-> ws[Len(ws) + 1 - i]]

\* [...warnings]: a new array with the same elements
Spread(ws) == [i \in 1..Len(ws) |-> ws[i]]

\* Array.prototype.filter with the message predicate
RECURSIVE FilterByMessage(_, _)
FilterByMessage(ws, s) ==
  IF ws = <<>> THEN <<>>
  ELSE IF Includes(Head(ws).message, s)
       THEN <<Head(ws)>> \o FilterByMessage(Tail(ws), s)
       ELSE FilterByMessage(Tail(ws), s)

\* Array.prototype.filter with the instanceof predicate
RECURSIVE FilterByType(_, _)
FilterByType(ws, type) ==
  IF ws = <<>> THEN <<>>
  ELSE IF InstanceOf(Head(ws).name, type)
       THEN <<Head(ws)>> \o FilterByType(Tail(ws), type)
       ELSE FilterByType(Tail(ws), type)

\* getWarnings(type) on the stored array ws
getWarningsOf(ws, type) ==
  IF type.tag = "string" THEN FilterByMessage(ws, type.value)
  ELSE IF type.tag = "function" THEN FilterByType(ws, type.value)
  ELSE Spread(ws)

getWarnings(type) == getWarningsOf(warnings, type)

\* a getWarnings that returns the stored array itself when there is no filter
SameArray_NoCopy(type) == type.tag = "undefined"

\* whether the array getWarnings(type) returns is the very array object the
\* manager stores: filter() and the spread each build a new array
SameArray(type) ==
  CASE type.tag = "string" -> FALSE
    [] type.tag = "function" -> FALSE
    [] OTHER -> FALSE

\* a forEach that sets the group to the element instead of pushing to it
RECURSIVE GroupFrom_Overwrite(_, _, _)
GroupFrom_Overwrite(ws, i, grouped) ==
  IF i > Len(ws) THEN grouped
  ELSE LET name == ws[i].name
           g    == IF name \in DOMAIN grouped THEN grouped
                   ELSE grouped @@ (name :> <<>>)
       IN GroupFrom_Overwrite(ws, i + 1, [g EXCEPT ![name] = <<ws[i]>>])

\* a forEach that keys a record by the class its class extends
RECURSIVE GroupFrom_ByParent(_, _, _)
GroupFrom_ByParent(ws, i, grouped) ==
  IF i > Len(ws) THEN grouped
  ELSE LET name == IF ws[i].name = "Warning" THEN "Warning"
                   ELSE Parent(ws[i].name)
           g    == IF name \in DOMAIN grouped THEN grouped
                   ELSE grouped @@ (name :> <<>>)
       IN GroupFrom_ByParent(ws, i + 1, [g EXCEPT ![name] = Append(@, ws[i])])

\* the forEach of groupWarnings: the Map after the elements from index i on
RECURSIVE GroupFrom(_, _, _)
GroupFrom(ws, i, grouped) ==
  IF i > Len(ws) THEN grouped
  ELSE LET name == ws[i].name
           g    == IF name \in DOMAIN grouped THEN grouped
                   ELSE grouped @@ (name :> <<>>)
       IN GroupFrom(ws, i + 1, [g EXCEPT ![name] = Append(@, ws[i])])

\* the empty Map
EmptyMap == [k \in {} |-> <<>>]

\* groupWarnings()
groupWarnings == GroupFrom(getWarnings(Absent), 1, EmptyMap)

\* a clear that removes the last record only
clear_DropsLast ==
  warnings' = SubSeq(warnings, 1, Len(warnings) - 1)

\* clear()
clear == warnings' = <<>>

\* a query that takes the records out of the stored array
queryRest_Drains ==
  /\ warnings' = <<>>
  /\ UNCHANGED <<observers, completed, received>>

\* what getWarnings(), groupWarnings() and the length getter write: nothing
queryRest == UNCHANGED <<warnings, observers, completed, received>>

\* a clear that also drops the observers
clearRest_Detach ==
  /\ observers' = {}
  /\ UNCHANGED <<completed, received>>

\* what else clear() writes: nothing
clearRest == UNCHANGED <<observers, completed, received>>

\* a complete that only clears
complete_ClearOnly ==
  /\ clear
  /\ UNCHANGED <<observers, completed>>

\* a complete that does not clear
complete_NoClear ==
  /\ superComplete
  /\ UNCHANGED warnings

\* complete(): super.complete(), then clear()
complete ==
  /\ superComplete
  /\ clear

----------------------------------------------------------------------------
(* The calls a client makes, one action per call *)

\* the scenario subscribe(A), warn(w1), complete(), warn(w2) on a new manager:
\* script.step counts the calls that followed it so far, -1 once a call departs
\* from it
ScriptStep(op, arg) ==
  IF script.step = 0 /\ op = "subscribe" /\ arg = "A"
    THEN [step |-> 1, ws |-> <<>>]
  ELSE IF script.step = 1 /\ op = "warn"
    THEN [step |-> 2, ws |-> <<arg>>]
  ELSE IF script.step = 2 /\ op = "complete"
    THEN [step |-> 3, ws |-> script.ws]
  ELSE IF script.step = 3 /\ op = "warn"
    THEN [step |-> 4, ws |-> Append(script.ws, arg)]
  ELSE [step |-> -1, ws |-> <<>>]

\* a warn() call that is not the defensive no-op
WellFormed(warning, type) ==
  warning.tag = "object" \/ Truthy(TypeOrDefault(type))

\* the record a well-formed warn() call is to store
Recorded(warning, type) ==
  IF warning.tag = "string" THEN New(TypeOrDefault(type), warning.value)
  ELSE warning.value

Warn(warning, type) ==
  /\ LET m == warn(Run, warning, type)
     IN /\ warnings' = m.warnings
        /\ observers' = m.observers
        /\ completed' = m.completed
        /\ received' = m.received
        /\ seen' = m.seen
        /\ threw' = m.threw
        /\ detached' = m.detached
        /\ ret' = m.ret
  /\ calls' = IF WellFormed(warning, type) THEN calls + 1 ELSE calls
  /\ inserted' = IF WellFormed(warning, type)
                 THEN Append(inserted, Recorded(warning, type)) ELSE inserted
  /\ last' = [op |-> "warn", arg |-> warning, type |-> type]
  /\ script' = IF WellFormed(warning, type)
               THEN ScriptStep("warn", Recorded(warning, type))
               ELSE ScriptStep("noop", Undefined)
  /\ expected' = [o \in Observers |->
                    IF o \in observers /\ WellFormed(warning, type)
                    THEN Append(expected[o], Recorded(warning, type))
                    ELSE expected[o]]
  /\ UNCHANGED <<fresh, behaviour, iterates>>

GetWarnings(type) ==
  /\ ret' = [op |-> "getWarnings", arg |-> type, value |-> getWarnings(type),
             shared |-> SameArray(type)]
  /\ last' = [op |-> "getWarnings", arg |-> type]
  /\ threw' = FALSE
  /\ UNCHANGED <<behaviour, iterates, seen>>
  /\ script' = ScriptStep("query", Undefined)
  /\ queryRest
  /\ UNCHANGED <<calls, fresh, inserted, detached, expected>>

GroupWarnings ==
  /\ ret' = [op |-> "groupWarnings", value |-> groupWarnings]
  /\ last' = [op |-> "groupWarnings"]
  /\ threw' = FALSE
  /\ UNCHANGED <<behaviour, iterates, seen>>
  /\ script' = ScriptStep("query", Undefined)
  /\ queryRest
  /\ UNCHANGED <<calls, fresh, inserted, detached, expected>>

Length ==
  /\ ret' = [op |-> "length", value |-> length]
  /\ last' = [op |-> "length"]
  /\ threw' = FALSE
  /\ UNCHANGED <<behaviour, iterates, seen>>
  /\ script' = ScriptStep("query", Undefined)
  /\ queryRest
  /\ UNCHANGED <<calls, fresh, inserted, detached, expected>>

Clear ==
  /\ clear
  /\ fresh' = FALSE
  /\ inserted' = <<>>
  /\ last' = [op |-> "clear"]
  /\ threw' = FALSE
  /\ UNCHANGED <<behaviour, iterates, seen>>
  /\ script' = ScriptStep("clear", Undefined)
  /\ clearRest
  /\ ret' = AfterRebind(ret)
  /\ UNCHANGED <<calls, detached, expected>>

Complete ==
  /\ complete
  /\ fresh' = FALSE
  /\ inserted' = <<>>
  /\ last' = [op |-> "complete"]
  /\ threw' = FALSE
  /\ UNCHANGED <<behaviour, iterates, seen>>
  /\ detached' = detached \cup observers
  /\ script' = ScriptStep("complete", Undefined)
  /\ ret' = AfterRebind(ret)
  /\ UNCHANGED <<received, calls, expected>>

Subscribe(o) ==
  /\ subscribe(o)
  /\ last' = [op |-> "subscribe", arg |-> o]
  /\ threw' = FALSE
  /\ UNCHANGED <<behaviour, iterates, seen>>
  /\ detached' = detached \ {o}
  /\ script' = ScriptStep("subscribe", o)
  /\ UNCHANGED <<warnings, completed, received, ret, calls, fresh, inserted,
                 expected>>

Unsubscribe(o) ==
  /\ unsubscribe(o)
  /\ last' = [op |-> "unsubscribe", arg |-> o]
  /\ threw' = FALSE
  /\ UNCHANGED <<behaviour, iterates, seen>>
  /\ script' = ScriptStep("unsubscribe", o)
  /\ UNCHANGED <<warnings, completed, received, ret, calls, fresh, inserted,
                 detached, expected>>

\* new type(messageOrData, data) on a templated class; the manager is not
\* involved
Construct(type, messageOrData, data) ==
  /\ ret' = [ op            |-> "construct",
              type          |-> type,
              messageOrData |-> messageOrData,
              data          |-> data,
              value         |-> NewFrom(type, messageOrData, data) ]
  /\ last' = [op |-> "construct"]
  /\ threw' = FALSE
  /\ UNCHANGED <<warnings, observers, completed, received, calls, fresh,
                 inserted, detached, script, expected, behaviour, iterates,
                 seen>>

\* no query has returned yet
NoResult == [op |-> "none"]

\* new WarningManager()
InitManager ==
  /\ warnings = <<>>
  /\ observers = {}
  /\ completed = FALSE
  /\ received = [o \in Observers |-> <<>>]
  /\ ret = NoResult
  /\ last = [op |-> "new"]
  /\ calls = 0
  /\ fresh = TRUE
  /\ inserted = <<>>
  /\ detached = {}
  /\ script = [step |-> 0, ws |-> <<>>]
  /\ expected = [o \in Observers |-> <<>>]
  /\ seen = [o \in Observers |-> <<>>]
  /\ threw = FALSE

\* new WarningManager(), with observers that only take the values: no
\* observer is detached while publish runs
Init ==
  /\ InitManager
  /\ behaviour = [o \in Observers |-> "plain"]
  /\ iterates = "snapshot"

----------------------------------------------------------------------------
(* Spec: recording, observers and the lifecycle *)

\* messages and classes the clients of Spec pass to warn()
Messages == { <<>>, <<"a">> }

WarnTypes == { Undefined, Null, "StabilityWarning" }

\* already constructed instances the clients of Spec pass to warn()
Instances == { NewWithData("StabilityWarning", <<"a">>, SomeData) }

Next ==
  \/ \E m \in Messages, type \in WarnTypes :
       calls < MaxCalls /\ Warn(Str(m), type)
  \/ \E w \in Instances :
       calls < MaxCalls /\ Warn(Obj(w), Undefined)
  \/ Clear
  \/ Complete
  \/ \E o \in Observers : Subscribe(o)
  \/ \E o \in Observers : Unsubscribe(o)

Spec == Init /\ [][Next]_vars

----------------------------------------------------------------------------
(* SpecQuery: a client records and clears warnings of every class, then     *)
(* makes one query                                                         *)

QueryMessages == { <<>>, <<"a", "b">>, <<"A", "b">> }

QueryTypes == Kinds \cup {Undefined}

QueryFilters ==
  {Absent}
    \cup {Str(s) : s \in { <<>>, <<"a">>, <<"b">>, <<"A">>, <<"a", "b">>,
                           <<"b", "a">>, <<"a", "b", "a">> }}
    \cup {Ctor(k) : k \in Kinds}

NextQuery ==
  \/ \E m \in QueryMessages, type \in QueryTypes :
       /\ calls < MaxCalls
       /\ ret = NoResult
       /\ Warn(Str(m), type)
  \/ ret = NoResult /\ warnings # <<>> /\ Clear
  \/ \E type \in QueryFilters : ret = NoResult /\ GetWarnings(type)
  \/ ret = NoResult /\ GroupWarnings
  \/ ret = NoResult /\ Length

SpecQuery == Init /\ [][NextQuery]_vars

----------------------------------------------------------------------------
(* SpecRecord: a client records warnings of every class, by message and as  *)
(* records, and clears                                                     *)

RecordTypes == Kinds \cup {Undefined, Null}

NextRecord ==
  \/ \E m \in QueryMessages, type \in RecordTypes :
       calls < MaxCalls /\ Warn(Str(m), type)
  \/ \E w \in Instances : calls < MaxCalls /\ Warn(Obj(w), Undefined)
  \/ Clear

SpecRecord == Init /\ [][NextRecord]_vars

----------------------------------------------------------------------------
(* SpecSnapshot: a client keeps the array a query returned while it goes on *)
(* recording, clearing and completing                                      *)

SnapshotFilters == { Absent, Str(<<"a">>), Ctor("Warning") }

NextSnapshot ==
  \/ \E m \in Messages : calls < MaxCalls /\ Warn(Str(m), Undefined)
  \/ \E type \in SnapshotFilters : GetWarnings(type)
  \/ Clear
  \/ Complete

SpecSnapshot == Init /\ [][NextSnapshot]_vars

----------------------------------------------------------------------------
(* SpecInterleave: record, unsubscribe and complete calls in any order; no  *)
(* observer subscribes once complete() was called                          *)

\* the warn() calls that record
RecordCalls ==
  { <<Str(m), type>> : m \in Messages, type \in WarnTypes \ {Null} }
    \cup { <<Obj(w), Undefined>> : w \in Instances }

NextInterleave ==
  \/ \E o \in Observers : ~completed /\ Subscribe(o)
  \/ \E call \in RecordCalls : calls < MaxCalls /\ Warn(call[1], call[2])
  \/ \E o \in Observers : Unsubscribe(o)
  \/ Complete

SpecInterleave == Init /\ [][NextInterleave]_vars

----------------------------------------------------------------------------
(* SpecObserver: observers whose next() throws, reads the manager or calls  *)
(* warn() on it                                                            *)

InitObserver ==
  /\ InitManager
  /\ behaviour \in [Observers -> Behaviours]
  /\ iterates = "snapshot"

NextObserver ==
  \/ \E m \in Messages : calls < MaxCalls /\ Warn(Str(m), Undefined)
  \/ \E o \in Observers : Subscribe(o)
  \/ \E o \in Observers : Unsubscribe(o)

SpecObserver == InitObserver /\ [][NextObserver]_vars

----------------------------------------------------------------------------
(* SpecCallback: observers whose next() may also call clear(), complete()   *)
(* or unsubscribe() on the manager, under either treatment of an observer  *)
(* detached while publish runs; the client records, clears, completes,     *)
(* subscribes and unsubscribes; no observer subscribes once complete() was *)
(* called                                                                  *)

InitCallback ==
  /\ InitManager
  /\ behaviour \in [Observers -> Callbacks]
  /\ iterates \in Iterations

\* the message the client passes to warn(); it differs from InnerMessage
CallbackMessages == { <<"a">> }

NextCallback ==
  \/ \E m \in CallbackMessages, type \in {Undefined, Null} :
       calls < MaxCalls /\ Warn(Str(m), type)
  \/ \E o \in Observers : ~completed /\ Subscribe(o)
  \/ \E o \in Observers : Unsubscribe(o)
  \/ Clear
  \/ Complete

SpecCallback == InitCallback /\ [][NextCallback]_vars

----------------------------------------------------------------------------
(* SpecReadOnly: queries between the recording, subscribing and completing  *)
(* calls                                                                   *)

NextReadOnly ==
  \/ \E m \in Messages : calls < MaxCalls /\ Warn(Str(m), Undefined)
  \/ \E o \in Observers : Subscribe(o)
  \/ \E type \in SnapshotFilters : GetWarnings(type)
  \/ GroupWarnings
  \/ Length
  \/ Complete

SpecReadOnly == Init /\ [][NextReadOnly]_vars

----------------------------------------------------------------------------
(* SpecConstruct: the constructors of the templated classes, on every      *)
(* pattern of present fields                                               *)

\* the values a field takes: featureType starts with a vowel, with a
\* consonant or with an upper-case letter outside ASCII, featureName may be
\* the empty string
FieldValues(f) ==
  CASE f = "featureType" -> { <<"O", "p">>, <<"F", "n">>, <<"É", "c">> }
    [] f = "featureName" -> { <<"N", "1">>, <<>> }
    [] f = "alternativeFeatureName" -> { <<"X", "2">> }
    [] f = "aboutUrl" -> { <<"U", "3">> }
    [] f = "foo" -> { <<"b", "a", "r">> }

DataObjects ==
  UNION { { d \in [S -> UNION { FieldValues(f) : f \in DataFields }] :
              \A f \in S : d[f] \in FieldValues(f) } : S \in SUBSET DataFields }

MessageArgs == { Str(<<>>), Str(<<"m">>) }

NextConstruct ==
  \/ \E type \in Templated : Construct(type, Absent, Absent)
  \/ \E type \in Templated, m \in MessageArgs : Construct(type, m, Absent)
  \/ \E type \in Templated, m \in MessageArgs, d \in DataObjects :
       Construct(type, m, Data(d))
  \/ \E type \in Templated, d \in DataObjects :
       Construct(type, Data(d), Absent)

SpecConstruct == Init /\ [][NextConstruct]_vars

----------------------------------------------------------------------------
(* Properties *)

\* C1: on a manager on which neither clear() nor complete() was called, the
\* count equals the number of well-formed warn() calls made so far.
C1_CountEqualsCalls ==
  fresh => length = calls

C1_Witness ==
  /\ fresh
  /\ calls = 2
  /\ observers # {}
  /\ warnings[1] = warnings[2]

\* C2: getWarnings() with no filter returns the stored records in the order
\* they were recorded, and as many as the count.
C2_QueryAllInInsertionOrder ==
  (last.op = "getWarnings" /\ last.arg = Absent) =>
    /\ ret.value = inserted
    /\ Len(ret.value) = length

C2_Witness ==
  /\ last.op = "getWarnings"
  /\ last.arg = Absent
  /\ Len(ret.value) = 2
  /\ ret.value[1] # ret.value[2]

\* s occurs in m: m is some prefix, then s, then some suffix
Contains(m, s) ==
  \E i \in 0..Len(m) : \E j \in i..Len(m) : SubSeq(m, i + 1, j) = s

\* the stored records whose message contains s, in recording order
WithMessage(s) ==
  LET Test(w) == Contains(w.message, s) IN SelectSeq(inserted, Test)

\* C3: getWarnings(s) with a string s returns exactly the records whose
\* message contains s as a case-sensitive substring, in recording order;
\* with the empty string it returns all records.
C3_QueryBySubstring ==
  (last.op = "getWarnings" /\ last.arg.tag = "string") =>
    /\ ret.value = WithMessage(last.arg.value)
    /\ last.arg.value = <<>> => ret.value = inserted

C3_Witness ==
  /\ last.op = "getWarnings"
  /\ last.arg = Str(<<"a">>)
  /\ Len(warnings) = 2
  /\ warnings[1].message = <<"A", "b">>
  /\ warnings[2].message = <<"a", "b">>
  /\ ret.value = <<warnings[2]>>

\* the classes that are V or extend it, as the hierarchy is documented
SubKinds(V) ==
  CASE V = "Warning" -> Kinds
    [] V = "OSWarning" ->
         { "OSWarning", "ProcessWarning", "ConnectionWarning", "DiskWarning",
           "MemoryWarning" }
    [] V = "FutureWarning" ->
         { "FutureWarning", "StabilityWarning", "DeprecationWarning",
           "PendingDeprecationWarning" }
    [] OTHER -> {V}

\* the stored records of class V or of a class that extends it
OfKind(V) ==
  LET Test(w) == w.name \in SubKinds(V) IN SelectSeq(inserted, Test)

\* C4: getWarnings(V) with a class V returns exactly the records whose own
\* class is V or a descendant of V, in recording order, and none of an
\* ancestor or sibling class.
C4_QueryByVariant ==
  (last.op = "getWarnings" /\ last.arg.tag = "function") =>
    ret.value = OfKind(last.arg.value)

C4_Witness ==
  /\ last.op = "getWarnings"
  /\ last.arg = Ctor("OSWarning")
  /\ Len(warnings) = 2
  /\ warnings[1].name = "Warning"
  /\ warnings[2].name = "DiskWarning"
  /\ ret.value = <<warnings[2]>>

\* the sum of the sizes of the groups under the keys ks
RECURSIVE GroupSizes(_, _)
GroupSizes(g, ks) ==
  IF ks = {} THEN 0
  ELSE LET k == CHOOSE x \in ks : TRUE
       IN Len(g[k]) + GroupSizes(g, ks \ {k})

\* how many times the record w occurs in the sequence ws
Occurrences(ws, w) == Cardinality({i \in 1..Len(ws) : ws[i] = w})

\* C5: groupWarnings() partitions the stored records: each stored record is
\* in exactly one group, as often as it is stored, no group holds a record
\* that is not stored, and the group sizes sum to the count.
C5_GroupsPartition ==
  (last.op = "groupWarnings") =>
    LET g == ret.value IN
      /\ \A i \in 1..Len(warnings) :
           \E k \in DOMAIN g :
             /\ Occurrences(g[k], warnings[i]) = Occurrences(warnings, warnings[i])
             /\ \A k2 \in DOMAIN g \ {k} : Occurrences(g[k2], warnings[i]) = 0
      /\ \A k \in DOMAIN g : \A j \in 1..Len(g[k]) :
           Occurrences(warnings, g[k][j]) > 0
      /\ GroupSizes(g, DOMAIN g) = length

C5_Witness ==
  /\ last.op = "groupWarnings"
  /\ Len(warnings) = 2
  /\ warnings[1].name = warnings[2].name
  /\ warnings[1] # warnings[2]
  /\ Len(ret.value[warnings[1].name]) = 2

\* C6: on an active manager, warn(msg) with a string and no class calls next
\* exactly once on a subscribed observer, with a record whose message is msg.
C6_SubscribedObserverNotifiedOnce ==
  [][ \A o \in Observers, m \in Messages :
        (~completed /\ o \in observers /\ Warn(Str(m), Undefined)) =>
          /\ Len(received'[o]) = Len(received[o]) + 1
          /\ SubSeq(received'[o], 1, Len(received[o])) = received[o]
          /\ received'[o][Len(received'[o])].message = m ]_vars

C6_Witness ==
  /\ last.op = "warn"
  /\ last.arg = Str(<<"a">>)
  /\ last.type = Undefined
  /\ ~completed
  /\ "A" \in observers
  /\ Len(received["A"]) = 1
  /\ received["A"][1].message = <<"a">>

\* C7: complete() makes the count 0, and from then on no warn() call calls
\* next on an observer that was subscribed when complete() was called.
C7_CompleteClearsAndDetaches ==
  [][ /\ Complete => length' = 0
      /\ \A o \in detached : received'[o] = received[o] ]_vars

C7_Witness ==
  /\ last.op = "warn"
  /\ completed
  /\ "A" \in detached
  /\ calls = 2
  /\ Len(warnings) = 1
  /\ Len(received["A"]) = 1

\* C8: a manager starts active, and once completed it stays completed
\* whatever is called.
C8_CompletedIsTerminal ==
  ~completed /\ [][completed => completed']_vars

C8_Witness ==
  /\ completed
  /\ last.op = "subscribe"
  /\ calls > 0

\* C10: after subscribe(A), warn(w1), complete(), warn(w2) on a new manager,
\* A was notified once in total, of w1, and the collection holds w2 alone.
C10_RecordAfterComplete ==
  script.step = 4 =>
    /\ received["A"] = <<script.ws[1]>>
    /\ length = 1
    /\ warnings = <<script.ws[2]>>

C10_Witness ==
  /\ script.step = 4
  /\ script.ws[1] # script.ws[2]

\* the last element of a non-empty sequence
LastOf(ws) == ws[Len(ws)]

\* C11: warn(message) with a string and no class appends one record of the
\* base class Warning whose message is that string, and warn(message, V)
\* with a class V appends one record whose class is V.
C11_RecordBuildsVariant ==
  [][ \A m \in QueryMessages, type \in QueryTypes :
        Warn(Str(m), type) =>
          /\ Len(warnings') = Len(warnings) + 1
          /\ SubSeq(warnings', 1, Len(warnings)) = warnings
          /\ LastOf(warnings').name = (IF type = Undefined THEN "Warning" ELSE type)
          /\ type = Undefined => LastOf(warnings').message = m ]_vars

C11_Witness ==
  /\ last.op = "warn"
  /\ last.arg = Str(<<"a", "b">>)
  /\ last.type = Undefined
  /\ Len(warnings) = 2
  /\ warnings[1].name = "DiskWarning"
  /\ warnings[2].name = "Warning"
  /\ warnings[2].message = <<"a", "b">>

\* C12: warn(record) with an existing record appends that record itself as
\* the last element, with its class, message, code and data as they were.
C12_RecordExistingUnchanged ==
  [][ \A w \in Instances :
        Warn(Obj(w), Undefined) => warnings' = Append(warnings, w) ]_vars

C12_Witness ==
  /\ last.op = "warn"
  /\ last.arg.tag = "object"
  /\ Len(warnings) = 2
  /\ LastOf(warnings) = last.arg.value
  /\ LastOf(warnings).data = SomeData
  /\ LastOf(warnings).name = "StabilityWarning"

\* C13 as stated: warn(message) with a string and a class that is falsy or
\* absent appends nothing and notifies no observer.
C13_FalsyOrAbsentIsNoOp ==
  [][ \A m \in Messages, type \in {Null, Undefined} :
        Warn(Str(m), type) => UNCHANGED <<warnings, received>> ]_vars

\* C13: warn(message, null) with a string and a falsy class other than
\* undefined appends nothing and notifies no observer; with the class absent
\* the default applies and one record of the base class is appended.
C13_FalsyIsNoOpAbsentIsDefault ==
  [][ \A m \in Messages :
        /\ Warn(Str(m), Null) => UNCHANGED <<warnings, received>>
        /\ Warn(Str(m), Undefined) =>
             /\ Len(warnings') = Len(warnings) + 1
             /\ LastOf(warnings').name = "Warning" ]_vars

C13_Witness ==
  /\ last.op = "warn"
  /\ last.arg.tag = "string"
  /\ last.type = Null
  /\ observers = {"A"}
  /\ calls = 1
  /\ Len(warnings) = 1
  /\ Len(received["A"]) = 1

\* C14: whatever the set of subscribed observers, a warn() call that records
\* on an active manager calls next exactly once, with the record just
\* stored, on each subscribed observer, and on no other observer.
C14_NotifiesExactlyTheSubscribed ==
  [][ \A call \in RecordCalls :
        (~completed /\ Warn(call[1], call[2])) =>
          \A o \in Observers :
            received'[o] = IF o \in observers
                           THEN Append(received[o], LastOf(warnings'))
                           ELSE received[o] ]_vars

C14_Witness ==
  /\ last.op = "warn"
  /\ ~completed
  /\ observers = {"A"}
  /\ Len(received["A"]) = 2
  /\ Len(received["B"]) = 1
  /\ received["A"][2] = LastOf(warnings)

\* C17: from any state, clear() leaves the count 0 and the collection a
\* query without filter returns empty.
C17_ClearEmpties ==
  [][ Clear => length' = 0 /\ getWarnings(Absent)' = <<>> ]_vars

C17_Witness ==
  /\ last.op = "clear"
  /\ ~completed
  /\ calls = 2
  /\ Len(received["A"]) = 2
  /\ length = 0

\* C18: clear() leaves the subscribed observers and the completed flag as
\* they were, and an observer subscribed before a clear() on an active
\* manager is notified of the next record.
C18_ClearKeepsObservers ==
  [][ /\ Clear => observers' = observers /\ completed' = completed
      /\ \A call \in RecordCalls :
           (last.op = "clear" /\ ~completed /\ Warn(call[1], call[2])) =>
             \A o \in observers :
               received'[o] = Append(received[o], LastOf(warnings')) ]_vars

C18_Witness ==
  /\ last.op = "warn"
  /\ ~completed
  /\ "A" \in observers
  /\ calls = 2
  /\ Len(warnings) = 1
  /\ Len(received["A"]) = 2

\* C16: the array a query returned, with any filter, keeps its elements and
\* its length through a later warn(), clear() or complete().
C16_QueryResultIsSnapshot ==
  [][ ( /\ ret.op = "getWarnings"
        /\ \/ \E m \in Messages : Warn(Str(m), Undefined)
           \/ Clear
           \/ Complete ) => ret'.value = ret.value ]_vars

C16_Witness ==
  /\ ret.op = "getWarnings"
  /\ ret.arg = Absent
  /\ Len(ret.value) = 1
  /\ last.op = "warn"
  /\ Len(warnings) = 2

\* C19: what is stored and what the queries return is determined by the
\* warn(), clear() and complete() calls alone, whichever observers are
\* subscribed: the collection is the records of the recording calls since
\* the last clear() or complete(), and the count and the query results are
\* those of that sequence.
C19_StoredIndependentOfObservers ==
  /\ warnings = inserted
  /\ length = Len(inserted)
  /\ \A type \in SnapshotFilters :
       getWarnings(type) = getWarningsOf(inserted, type)
  /\ groupWarnings = GroupFrom(inserted, 1, EmptyMap)

C19_Witness ==
  /\ observers = {"A", "B"}
  /\ Len(warnings) = 2
  /\ Len(received["A"]) = 2
  /\ received["B"] = <<>>

\* the stored records whose own class name is k, in recording order
Named(k) ==
  LET Test(w) == w.name = k IN SelectSeq(warnings, Test)

\* C23: groupWarnings() keys each record by the name of its own class, never
\* by an ancestor; the keys are exactly the class names present in the
\* collection, and each group lists its records in recording order.
C23_GroupsKeyedByOwnKind ==
  (last.op = "groupWarnings") =>
    LET g == ret.value IN
      /\ DOMAIN g = { warnings[i].name : i \in 1..Len(warnings) }
      /\ \A k \in DOMAIN g : g[k] = Named(k) /\ g[k] # <<>>

C23_Witness ==
  /\ last.op = "groupWarnings"
  /\ Len(warnings) = 2
  /\ warnings[1].name = "DiskWarning"
  /\ warnings[2].name = "OSWarning"
  /\ DOMAIN ret.value = {"DiskWarning", "OSWarning"}

\* the classes of the operating-system branch and of the future branch
OSFamily ==
  { "OSWarning", "DiskWarning", "MemoryWarning", "ProcessWarning",
    "ConnectionWarning" }

FutureFamily ==
  { "FutureWarning", "StabilityWarning", "DeprecationWarning",
    "PendingDeprecationWarning" }

\* the stored records whose own class is in the set F, in recording order
InFamily(F) ==
  LET Test(w) == w.name \in F IN SelectSeq(warnings, Test)

\* C24: the hierarchy is a tree rooted at Warning: the four OS classes are
\* each an OSWarning and a Warning and not a FutureWarning, the three future
\* classes are each a FutureWarning and a Warning and not an OSWarning; so
\* getWarnings(OSWarning) returns the records of the OS branch only and
\* getWarnings(FutureWarning) those of the future branch only.
C24_HierarchyIsTree ==
  /\ \A k \in Kinds : InstanceOf(k, "Warning")
  /\ \A k \in OSFamily :
       InstanceOf(k, "OSWarning") /\ ~InstanceOf(k, "FutureWarning")
  /\ \A k \in FutureFamily :
       InstanceOf(k, "FutureWarning") /\ ~InstanceOf(k, "OSWarning")
  /\ ~InstanceOf("Warning", "OSWarning") /\ ~InstanceOf("Warning", "FutureWarning")
  /\ (last.op = "getWarnings" /\ last.arg = Ctor("OSWarning")) =>
       ret.value = InFamily(OSFamily)
  /\ (last.op = "getWarnings" /\ last.arg = Ctor("FutureWarning")) =>
       ret.value = InFamily(FutureFamily)

C24_Witness ==
  /\ last.op = "getWarnings"
  /\ last.arg = Ctor("OSWarning")
  /\ Len(warnings) = 2
  /\ warnings[1].name = "StabilityWarning"
  /\ warnings[2].name = "DiskWarning"
  /\ ret.value = <<warnings[2]>>

\* the position of observer o in the notification order
Pos(o) ==
  CHOOSE i \in 1..Len(NotificationOrder) : NotificationOrder[i] = o

\* the subscribed observers whose next() throws
Throwers == { o \in observers : behaviour[o] = "throws" }

\* the first of them in the notification order
FirstThrower ==
  CHOOSE o \in Throwers : \A p \in Throwers : Pos(o) <= Pos(p)

\* C21: when the next() of a subscribed observer throws during warn(), and
\* no observer notified before it calls warn() itself, the call throws, the
\* record is stored all the same (the count is one more and the record is
\* the last element), the failing observer was called with it and no
\* observer later in the notification order is.
C21_ObserverFailurePropagates ==
  [][ \A msg \in Messages :
        ( /\ Throwers # {}
          /\ \A o \in observers :
               Pos(o) < Pos(FirstThrower) => behaviour[o] # "warns"
          /\ Warn(Str(msg), Undefined) ) =>
            /\ threw'
            /\ warnings' = Append(warnings, New("Warning", msg))
            /\ length' = length + 1
            /\ received'[FirstThrower] =
                 Append(received[FirstThrower], New("Warning", msg))
            /\ \A o \in Observers :
                 Pos(o) > Pos(FirstThrower) => received'[o] = received[o] ]_vars

C21_Witness ==
  /\ threw
  /\ last.op = "warn"
  /\ behaviour = [o \in Observers |-> IF o = "A" THEN "throws" ELSE "plain"]
  /\ observers = {"A", "B"}
  /\ Len(warnings) = 1
  /\ received["A"] = warnings
  /\ received["B"] = <<>>

\* the subscribed observers whose next() calls warn()
Reentrant == { o \in observers : behaviour[o] = "warns" }

\* C30: when one subscribed observer's next() calls warn() during the
\* notification of a record, and no next() throws, both records are stored,
\* the outer one before the inner one, and every subscribed observer is
\* called exactly once with each of the two.
C30_ReentrantRecord ==
  [][ \A msg \in Messages :
        ( /\ Cardinality(Reentrant) = 1
          /\ Throwers = {}
          /\ Warn(Str(msg), Undefined) ) =>
            LET outer == New("Warning", msg)
                inner == New("Warning", InnerMessage)
            IN /\ warnings' = warnings \o <<outer, inner>>
               /\ \A o \in observers :
                    /\ Len(received'[o]) = Len(received[o]) + 2
                    /\ SubSeq(received'[o], 1, Len(received[o])) = received[o]
                    /\ { received'[o][Len(received[o]) + 1],
                         received'[o][Len(received[o]) + 2] } = {outer, inner}
               /\ \A o \in Observers \ observers : received'[o] = received[o] ]_vars

C30_Witness ==
  /\ last.op = "warn"
  /\ behaviour = [o \in Observers |-> IF o = "A" THEN "warns" ELSE "plain"]
  /\ observers = {"A", "B"}
  /\ Len(warnings) = 2
  /\ warnings[2].message = InnerMessage
  /\ received["A"] = warnings
  /\ received["B"] = <<warnings[2], warnings[1]>>

----------------------------------------------------------------------------
(* Properties of calls during which an observer calls back into the manager *)

\* s is the beginning of t
IsPrefix(s, t) == Len(s) <= Len(t) /\ SubSeq(t, 1, Len(s)) = s

\* what t has after its first Len(s) elements
Rest(s, t) == SubSeq(t, Len(s) + 1, Len(t))

\* the observers subscribed when the call begins whose next() does b
Doing(b) == { o \in observers : behaviour[o] = b }

\* those whose next() empties the collection: clear() or complete()
Clearers == Doing("clears") \cup Doing("completes")

\* those whose next() detaches observers: unsubscribe() or complete()
Detachers == Doing("unsubscribes") \cup Doing("completes")

\* the subscribed observers notified before o
Earlier(o) == { p \in observers : Pos(p) < Pos(o) }

\* the record the warn() call of this step is to store, and the record a
\* re-entrant warn() stores
Outer == Recorded(last'.arg, last'.type)
Inner == New("Warning", InnerMessage)

\* this step is a warn() call that records
Records == last'.op = "warn" /\ WellFormed(last'.arg, last'.type)

\* what o's next() is called with during this step, in order
Got(o) == Rest(received[o], received'[o])

\* n inner records in a row
InnerTimes(n) == [i \in 1..n |-> Inner]

\* C15 as stated: during a warn() call in which no next() throws and no
\* observer is detached, each subscribed observer is called with the records
\* the call and the calls made inside it record, none skipped, in the order
\* they were recorded: the record of the call itself first, then one inner
\* record for each observer whose next() calls warn().
C15_ReceivedInRecordingOrder ==
  [][ Records /\ Throwers = {} /\ Detachers = {} =>
        \A o \in observers :
          /\ IsPrefix(received[o], received'[o])
          /\ Got(o) = <<Outer>> \o InnerTimes(Cardinality(Reentrant)) ]_vars

\* C15: during a warn() call in which no next() throws and no observer is
\* detached, each subscribed observer is called once with every record the
\* call and the calls made inside it record, none skipped; the order is
\* that of recording unless an observer notified before it calls warn()
\* from its next(): it is then called with the inner record first.
C15_ReceivedInOrderUnlessReentrant ==
  [][ Records /\ Throwers = {} /\ Detachers = {} =>
        \A o \in observers :
          /\ IsPrefix(received[o], received'[o])
          /\ Got(o) =
               IF Earlier(o) \cap Reentrant = {}
               THEN <<Outer>> \o InnerTimes(Cardinality(Reentrant))
               ELSE <<Inner, Outer>> \o InnerTimes(Cardinality(Reentrant) - 1) ]_vars

C15_Witness ==
  /\ last.op = "warn"
  /\ behaviour = [o \in Observers |-> IF o = "A" THEN "warns" ELSE "clears"]
  /\ calls = 1
  /\ received["A"] = <<New("Warning", <<"a">>), Inner>>
  /\ received["B"] = <<Inner, New("Warning", <<"a">>)>>
  /\ warnings = <<>>

\* C20 as stated: a warn() never calls next on an observer that is not
\* subscribed; complete() does not run inside a warn(): a warn() on a manager
\* that is not completed stores its record and notifies the subscribed
\* observers, and the manager is not completed when it returns; a warn()
\* after complete() stores its record and notifies no observer; complete()
\* removes the records and detaches the observers.  Stated for calls in
\* which no next() throws, calls warn() or calls clear().
C20_CompletionAtomicWithRecording ==
  [][ /\ ( /\ Records
           /\ Throwers = {} /\ Reentrant = {} /\ Doing("clears") = {} ) =>
             /\ \A o \in Observers \ observers : received'[o] = received[o]
             /\ completed' = completed
             /\ warnings' = Append(warnings, Outer)
             /\ \A o \in observers \cap observers' :
                  received'[o] = Append(received[o], Outer)
             /\ completed => received' = received
      /\ last'.op = "complete" =>
           /\ warnings' = <<>>
           /\ observers' = {}
           /\ received' = received ]_vars

\* the first subscribed observer whose next() calls complete()
FirstCompleter ==
  CHOOSE o \in Doing("completes") :
    \A p \in Doing("completes") : Pos(o) <= Pos(p)

\* the record of this warn() is stored and every observer that stays
\* subscribed was called with it; complete() did not run
RecordedWhole ==
  /\ completed' = completed
  /\ warnings' = Append(warnings, Outer)
  /\ \A o \in observers \cap observers' :
       received'[o] = Append(received[o], Outer)
  /\ completed => received' = received

\* complete() ran inside this warn(): the observer that called it and those
\* notified before it were called with the record, the manager is completed,
\* the collection is empty and no observer is subscribed
CompletedInside ==
  /\ completed'
  /\ warnings' = <<>>
  /\ observers' = {}
  /\ \A o \in observers :
       IF Pos(o) <= Pos(FirstCompleter)
       THEN received'[o] = Append(received[o], Outer)
       ELSE received'[o] \in {received[o], Append(received[o], Outer)}

\* C20: a warn() never calls next on an observer that is not subscribed when
\* it begins, and an observer detached by a next() during the call is not
\* called with a record made after that.  When no next() calls complete(),
\* a warn() on a manager that is not completed stores its record and
\* notifies the subscribed observers and the manager is not completed when
\* it returns, a warn() after complete() stores its record and notifies no
\* observer, and complete() removes the records and detaches the observers.
\* When a next() calls complete(), the record was stored and given to that
\* observer and to those notified before it, and when warn() returns the
\* manager is completed, the collection is empty and no observer is
\* subscribed.  (An observer whose next() would call complete() is not
\* called when a next() before it has unsubscribed it and publish skips
\* detached observers.)  Stated for calls in which no next() throws, calls
\* warn() or calls clear().
C20_CompletionAtomicBetweenCalls ==
  [][ /\ last'.op = "warn" =>
           /\ \A o \in Observers \ observers : received'[o] = received[o]
           /\ \A o \in observers :
                Earlier(o) \cap Detachers # {} =>
                  \A i \in 1..Len(Got(o)) : Got(o)[i] # Inner
      /\ ( /\ Records
           /\ Throwers = {} /\ Reentrant = {} /\ Doing("clears") = {} ) =>
             IF Doing("completes") = {} THEN RecordedWhole
             ELSE IF Doing("unsubscribes") = {} THEN CompletedInside
             ELSE RecordedWhole \/ CompletedInside
      /\ last'.op = "complete" =>
           /\ warnings' = <<>>
           /\ observers' = {}
           /\ received' = received ]_vars

C20_Witness ==
  /\ last.op = "warn"
  /\ behaviour = [o \in Observers |-> IF o = "A" THEN "completes" ELSE "plain"]
  /\ iterates = "live"
  /\ calls = 1
  /\ completed
  /\ detached = {"A", "B"}
  /\ observers = {}
  /\ warnings = <<>>
  /\ received["A"] = <<New("Warning", <<"a">>)>>
  /\ received["B"] = <<>>

C29_AppendOnlyBetweenClears ==
  [][ /\ last'.op = "warn" =>
           /\ Len(warnings') =
                Len(warnings) + (IF WellFormed(last'.arg, last'.type) THEN 1 ELSE 0)
           /\ SubSeq(warnings', 1, Len(warnings)) = warnings
      /\ Len(warnings') < Len(warnings) => last'.op \in {"clear", "complete"}
      /\ last'.op \in {"clear", "complete"} => warnings' = <<>> ]_vars

\* the sequences of n inner records at most
Inners(n) == { InnerTimes(k) : k \in 0..n }

\* C29: a warn() call during which no next() calls clear() or complete()
\* keeps the stored sequence as a prefix and lengthens it by its own record
\* (by none when the class is null) and by one record for each warn() a
\* next() makes during it; the sequence gets shorter only in a clear() or
\* complete() call or in a warn() during which a next() calls one of them,
\* and then nothing of it is left: clear() and complete() leave the
\* collection empty, and after such a warn() it holds at most the records of
\* the warn() calls made by a next().
C29_AppendOnlyUnlessCalledBack ==
  [][ /\ last'.op = "warn" /\ Clearers = {} =>
           /\ IsPrefix(warnings, warnings')
           /\ IF ~WellFormed(last'.arg, last'.type)
                THEN warnings' = warnings
              ELSE IF Reentrant = {}
                THEN warnings' = Append(warnings, Outer)
              ELSE \E tail \in Inners(Cardinality(Reentrant)) :
                     warnings' = Append(warnings, Outer) \o tail
      /\ last'.op = "warn" /\ ~IsPrefix(warnings, warnings') =>
           /\ Clearers # {}
           /\ warnings' \in Inners(Cardinality(Reentrant))
      /\ Len(warnings') < Len(warnings) =>
           \/ last'.op \in {"clear", "complete"}
           \/ last'.op = "warn" /\ Clearers # {}
      /\ last'.op \in {"clear", "complete"} => warnings' = <<>> ]_vars

C29_Witness ==
  /\ last.op = "warn"
  /\ behaviour = [o \in Observers |-> "warns"]
  /\ observers = Observers
  /\ calls = 1
  /\ warnings = <<New("Warning", <<"a">>), Inner, Inner>>

----------------------------------------------------------------------------
(* Properties of the stored records, the queries and the constructors *)

\* C22: the manager never changes a stored record: in every call, each
\* record of the collection stays as it is or the collection is emptied, and
\* the collection changes only by one whole record appended or by all
\* records removed.
C22_StoredRecordsNeverMutated ==
  [][ /\ \/ warnings' = <<>>
         \/ /\ Len(warnings') >= Len(warnings)
            /\ \A i \in 1..Len(warnings) : warnings'[i] = warnings[i]
      /\ \/ warnings' = warnings
         \/ warnings' = <<>>
         \/ \E call \in RecordCalls :
              warnings' = Append(warnings, Recorded(call[1], call[2])) ]_vars

C22_Witness ==
  /\ last.op = "warn"
  /\ last.arg.tag = "string"
  /\ Len(warnings) = 2
  /\ warnings[1] \in Instances
  /\ warnings[1].data = SomeData

\* C28: getWarnings() with any filter, groupWarnings() and the length getter
\* leave the stored sequence, the subscribed observers and the completed
\* flag as they are and call next on no observer.
C28_QueriesAreReadOnly ==
  [][ last'.op \in {"getWarnings", "groupWarnings", "length"} =>
        UNCHANGED <<warnings, observers, completed, received>> ]_vars

C28_Witness ==
  /\ last.op = "groupWarnings"
  /\ ~completed
  /\ observers = {"A"}
  /\ Len(warnings) = 2
  /\ Len(received["A"]) = 2
  /\ DOMAIN ret.value = {"Warning"}

\* the fields the message templates of a class read
TemplateFieldsOf(type) ==
  IF type = "DeprecationWarning" THEN TemplateFields
  ELSE TemplateFields \ {"alternativeFeatureName"}

\* C25: for the Stability, Deprecation and PendingDeprecation variants, a
\* non-empty message string given at construction is the record's message
\* even when data is also given; an empty message string, empty data, or data
\* with none of the template fields yields the variant's default message.
C25_MessageArgumentWins ==
  ret.op = "construct" =>
    LET a == ret.messageOrData
        w == ret.value
    IN /\ w.name = ret.type
       /\ a.tag = "string" /\ a.value # <<>> => w.message = a.value
       /\ a.tag = "string" /\ a.value = <<>> =>
            w.message = DEFAULT_MESSAGE(ret.type)
       /\ a.tag = "object"
            /\ (\A f \in TemplateFieldsOf(ret.type) : ~Has(a.value, f)) =>
            w.message = DEFAULT_MESSAGE(ret.type)

C25_Witness ==
  /\ ret.op = "construct"
  /\ ret.messageOrData = Str(<<"m">>)
  /\ ret.data.tag = "object"
  /\ Has(ret.data.value, "featureName")
  /\ Has(ret.data.value, "aboutUrl")
  /\ ret.value.message = <<"m">>

\* the sentence about the alternative, and the one about the URL
UseInstead(data) ==
  <<"U", "s", "e", " ">> \o data.alternativeFeatureName
    \o <<" ", "i", "n", "s", "t", "e", "a", "d", ".">>

ReadMoreAt(data) ==
  <<"R", "e", "a", "d", " ", "m", "o", "r", "e", " ", "a", "t", " ">>
    \o data.aboutUrl \o <<".">>

\* the subject of the message: what stands before " has been deprecated."
Subject(message) ==
  LET verb == <<" ", "h", "a", "s", " ", "b", "e", "e", "n", " ", "d", "e",
                "p", "r", "e", "c", "a", "t", "e", "d", ".">>
      at == CHOOSE i \in 0..Len(message) :
              /\ i + Len(verb) <= Len(message)
              /\ SubSeq(message, i + 1, i + Len(verb)) = verb
              /\ \A j \in 0..(i - 1) :
                    SubSeq(message, j + 1, j + Len(verb)) # verb
  IN SubSeq(message, 1, at)

\* C27: a DeprecationWarning built from data alone mentions every field
\* that is present and no field that is absent, on each of the 16 patterns
\* of presence of featureType, featureName, alternativeFeatureName and
\* aboutUrl: the type and the name stand in the subject, "Use <alternative>
\* instead." is there iff alternativeFeatureName is present and "Read more
\* at <url>." iff aboutUrl is present.
C27_DeprecationMentionsPresentFields ==
  ( /\ ret.op = "construct"
    /\ ret.type = "DeprecationWarning"
    /\ ret.messageOrData.tag = "object" ) =>
    LET data == ret.messageOrData.value
        message == ret.value.message
        subject == Subject(message)
    IN /\ Includes(message, <<"U", "s", "e", " ">>)
            <=> Has(data, "alternativeFeatureName")
       /\ Has(data, "alternativeFeatureName") =>
            Includes(message, UseInstead(data))
       /\ Includes(message, <<"R", "e", "a", "d", " ", "m", "o", "r", "e">>)
            <=> Has(data, "aboutUrl")
       /\ Has(data, "aboutUrl") => Includes(message, ReadMoreAt(data))
       /\ Includes(subject, <<",">>) <=> Has(data, "featureName")
       /\ Has(data, "featureName") =>
            Includes(subject, <<",", " ">> \o data.featureName \o <<",">>)
       /\ Includes(subject, <<"f", "e", "a", "t", "u", "r", "e">>)
            <=> ~Has(data, "featureType")
       /\ Has(data, "featureType") =>
            Includes_Prefix(subject, Article(data) \o <<" ">> \o data.featureType)

C27_Witness ==
  /\ ret.op = "construct"
  /\ ret.type = "DeprecationWarning"
  /\ ret.messageOrData.tag = "object"
  /\ \A f \in TemplateFields : Has(ret.messageOrData.value, f)
  /\ ret.messageOrData.value.featureType = <<"O", "p">>
  /\ Includes(ret.value.message, <<"A", "n", " ", "O", "p", ",", " ", "N", "1", ",">>)
  /\ Includes(ret.value.message, UseInstead(ret.messageOrData.value))
  /\ Includes(ret.value.message, ReadMoreAt(ret.messageOrData.value))

====
